---- MODULE Spec2Model ----
(***************************************************************************)
(* Formatting-preserving document patch engine of ContratosCS.             *)
(*                                                                         *)
(* A document is a sequence of top-level blocks (paragraphs and tables).   *)
(* The engine extracts a flat text (one line per block, tables as          *)
(* [TABELA_JSON]...[/TABELA_JSON] markers), and apply_selective_edits      *)
(* re-applies an edited flat text onto the original document, falling back *)
(* to a rebuild from scratch when the in-place patch raises.               *)
(*                                                                         *)
(* Texts are sequences of one-character strings; a flat text is a sequence *)
(* of tokens (characters, the newline, the two markers, a JSON payload).   *)
(***************************************************************************)
EXTENDS Integers, Sequences, FiniteSets, TLC

VARIABLES disk, contract_path, new_content, pc, doc, baseline, table_edits,
          paragraph_content, rebuilt, result, stages, patchedBlocks,
          patchRaised, savedObject, rebuildCalls, saveCalls, calls, prev,
          callB, lastWriter,
          served, viewerContent, editedContent, isLoading, isSaving, isEditing,
          editableTables, textParts, save, outstanding, userEdits,
          isProcessing, groupsProgress, steps, viewerState, chain

\* the state of the contract editor of the front end
varsViewer == <<served, viewerContent, editedContent, isLoading, isSaving, isEditing,
                editableTables, textParts, save, outstanding, userEdits>>

\* the state of the contract generator of the front end
varsGenerator == <<isProcessing, groupsProgress, steps, viewerState, chain>>

\* the state of the front end
varsFrontend == <<varsViewer, varsGenerator>>

\* the state of the editing engine and of the disk
varsEngine == <<disk, contract_path, new_content, pc, doc, baseline,
                table_edits, paragraph_content, rebuilt, result, stages,
                patchedBlocks, patchRaised, savedObject, rebuildCalls,
                saveCalls, calls, prev, callB, lastWriter>>

vars == <<varsEngine, varsFrontend>>

\* ------------------------------------------------------------------ bounds
MaxBlocks == 2

MaxLines == 2

\* calls made one after the other on the same original
MaxCalls == 2

\* lines of a content opened in the editor
MaxContentLines == 3

\* groups selected for a generation
MaxGroups == 2

\* companies of a group, or selected one by one
MaxCompanies == 2

\* ------------------------------------------------------------ token syntax
NL == "\n"

OPEN == "[TABELA_JSON]"

CLOSE == "[/TABELA_JSON]"

\* ---------------------------------------------------------------- text ops
RECURSIVE LStrip(_)
LStrip(t) == IF t # <<>> /\ t[1] \in {" ", NL} THEN LStrip(Tail(t)) ELSE t

RECURSIVE RStrip(_)
RStrip(t) ==
  IF t # <<>> /\ t[Len(t)] \in {" ", NL} THEN RStrip(SubSeq(t, 1, Len(t) - 1)) ELSE t

\* str.strip()
Strip(t) == RStrip(LStrip(t))

RECURSIVE Str(_)
Str(t) == IF t = <<>> THEN "" ELSE t[1] \o Str(Tail(t))

RECURSIVE Flatten(_)
Flatten(ss) == IF ss = <<>> THEN <<>> ELSE ss[1] \o Flatten(Tail(ss))

\* ----------------------------------------------------------- document model
Run(f, t) == [fmt |-> f, text |-> t]

Paragraph(rs) == [kind |-> "p", runs |-> rs, rows |-> <<>>, props |-> "pPr"]

Cell(ps) == [paras |-> ps, props |-> "tcPr"]

Table(rws) == [kind |-> "t", runs |-> <<>>, rows |-> rws, props |-> "tblPr"]

\* paragraph.text: the concatenated text of the runs
ParagraphText(p) == Flatten([i \in 1..Len(p.runs) |-> p.runs[i].text])

P_norun == Paragraph(<<>>)

P_blank == Paragraph(<<Run("plain", <<" ">>)>>)

P_a == Paragraph(<<Run("bold", <<"a">>)>>)

P_b == Paragraph(<<Run("plain", <<"b">>)>>)

P_ab == Paragraph(<<Run("bold", <<"a">>), Run("plain", <<"b">>)>>)

P_pad == Paragraph(<<Run("plain", <<" ">>), Run("bold", <<"a">>)>>)

T_row == Table(<< <<Cell(<<P_a>>), Cell(<<P_b>>)>> >>)

T_col == Table(<< <<Cell(<<P_pad>>)>>, <<Cell(<<P_ab, P_b>>)>> >>)

ParaPool == {P_norun, P_blank, P_a, P_ab, P_pad}

TablePool == {T_row, T_col}

BlockPool == ParaPool \cup TablePool

SeqsUpTo(S, n) == UNION {[1..k -> S] : k \in 0..n}

Document(bs, o) == [blocks |-> bs, other |-> o]

Docs == {Document(bs, "media+headers+sectPr+styles") : bs \in SeqsUpTo(BlockPool, MaxBlocks)}

\* ------------------------------------------------------- serialized content
PlainTextLine(t) == [kind |-> "text", text |-> t, tableIndex |-> -1, grid |-> <<>>]

TableMarkerLine(k, g) == [kind |-> "table", text |-> <<>>, tableIndex |-> k, grid |-> g]

\* cell text = trimmed text of the cell's first paragraph ("" when none)
CellText(cell) ==
  IF cell.paras = <<>> THEN <<>> ELSE Strip(ParagraphText(cell.paras[1]))

TableGrid(t) ==
  [r \in 1..Len(t.rows) |-> [c \in 1..Len(t.rows[r]) |-> CellText(t.rows[r][c])]]

\* ---------------------------------------------------------- DocumentExtractor
\* the extraction before the fix: a paragraph without text yields no line
ExtractParagraph_skipEmpty(p) ==
  LET paragraph_text == Strip(ParagraphText(p))
  IN  IF paragraph_text # <<>> THEN <<PlainTextLine(paragraph_text)>> ELSE <<>>

\* content_lines.append(paragraph_text) for every paragraph, "" when empty
ExtractParagraph(p) ==
  LET paragraph_text == Strip(ParagraphText(p))
  IN  IF paragraph_text # <<>> THEN <<PlainTextLine(paragraph_text)>>
                               ELSE <<PlainTextLine(<<>>)>>

ExtractTable(t, table_index) == <<TableMarkerLine(table_index, TableGrid(t))>>

RECURSIVE ExtractFrom(_, _, _)
ExtractFrom(blocks, i, table_index) ==
  IF i > Len(blocks) THEN <<>>
  ELSE IF blocks[i].kind = "p"
       THEN ExtractParagraph(blocks[i]) \o ExtractFrom(blocks, i + 1, table_index)
       ELSE ExtractTable(blocks[i], table_index)
              \o ExtractFrom(blocks, i + 1, table_index + 1)

extract(d) == ExtractFrom(d.blocks, 1, 0)

\* ------------------------------------------------------------ flat text I/O
RECURSIVE JoinWith(_, _)
JoinWith(ss, sep) ==
  IF ss = <<>> THEN ""
  ELSE IF Len(ss) = 1 THEN ss[1] ELSE ss[1] \o sep \o JoinWith(Tail(ss), sep)

JsonString(t) == "\"" \o Str(t) \o "\""

JsonRow(row) == "[" \o JoinWith([c \in 1..Len(row) |-> JsonString(row[c])], ",") \o "]"

\* compact JSON of a 2D array of strings
ToJson(g) == "[" \o JoinWith([r \in 1..Len(g) |-> JsonRow(g[r])], ",") \o "]"

SerializeLine(l) ==
  IF l.kind = "text" THEN l.text ELSE <<OPEN, ToJson(l.grid), CLOSE>>

RECURSIVE JoinLines(_)
JoinLines(ls) ==
  IF ls = <<>> THEN <<>>
  ELSE IF Len(ls) = 1 THEN ls[1] ELSE ls[1] \o <<NL>> \o JoinLines(Tail(ls))

\* the flat text sent to the editing client
Serialize(lines) == JoinLines([i \in 1..Len(lines) |-> SerializeLine(lines[i])])

\* new_content.split('\n')
RECURSIVE SplitFrom(_, _, _)
SplitFrom(flat, i, cur) ==
  IF i > Len(flat) THEN <<cur>>
  ELSE IF flat[i] = NL THEN <<cur>> \o SplitFrom(flat, i + 1, <<>>)
       ELSE SplitFrom(flat, i + 1, Append(cur, flat[i]))

SplitLines(flat) == SplitFrom(flat, 1, <<>>)

HasMarker(line) == \E i \in 1..Len(line) : line[i] \in {OPEN, CLOSE}

\* grids the edited text may carry
G_row == << <<<<"a">>, <<"b">>>> >>

G_rowEdit == << <<<<"a">>, <<"c">>>> >>

G_col == << <<<<"a">>>>, <<<<"a", "b">>>> >>

G_colEdit == << <<<<"a">>>>, <<<<"c">>>> >>

G_grown == << <<<<"c">>>>, <<<<"a", "b">>>>, <<<<"b">>>> >>

GridPool == {G_row, G_rowEdit, G_col, G_colEdit, G_grown}

BadJson == "[[\"a\","

NullGrid == [ok |-> FALSE, grid |-> <<>>]

\* json.loads of a marker payload
ParseJson(s) ==
  IF \E g \in GridPool : ToJson(g) = s
  THEN [ok |-> TRUE, grid |-> CHOOSE g \in GridPool : ToJson(g) = s]
  ELSE NullGrid

ParseTableMarker(line) ==
  IF Len(line) = 3 /\ line[1] = OPEN /\ line[3] = CLOSE
  THEN ParseJson(line[2]) ELSE NullGrid

\* lines of a flat text, as Lines
RECURSIVE ParseFrom(_, _, _)
ParseFrom(ls, i, table_index) ==
  IF i > Len(ls) THEN <<>>
  ELSE IF HasMarker(ls[i])
       THEN <<TableMarkerLine(table_index, ParseTableMarker(ls[i]).grid)>>
              \o ParseFrom(ls, i + 1, table_index + 1)
       ELSE <<PlainTextLine(ls[i])>> \o ParseFrom(ls, i + 1, table_index)

ParseLines(flat) == ParseFrom(SplitLines(flat), 1, 0)

\* a marker that is opened and not closed on its line
Unterminated(line) ==
  /\ \E i \in 1..Len(line) : line[i] = OPEN
  /\ ~\E i \in 1..Len(line) : line[i] = CLOSE

HasUnterminatedMarker(flat) ==
  \E i \in 1..Len(SplitLines(flat)) : Unterminated(SplitLines(flat)[i])

WellFormed(flat) ==
  \A i \in 1..Len(SplitLines(flat)) :
    HasMarker(SplitLines(flat)[i]) => ParseTableMarker(SplitLines(flat)[i]).ok

\* -------------------------------------------------------- CorrespondenceMapper
\* a filter that lets blank lines through
KeepsParagraphLine_keepBlank(line) == ~HasMarker(line)

KeepsParagraphLine(line) == Strip(line) # <<>> /\ ~HasMarker(line)

\* for line in new_lines: if line_clean and not (marker in line): append(line)
FilterParagraphContent(new_lines) == SelectSeq(new_lines, KeepsParagraphLine)

\* a mapping in which a malformed marker takes no table slot
FilterTableEdits_dropMalformed(new_lines) ==
  LET markers == SelectSeq(new_lines, LAMBDA l : HasMarker(l) /\ ParseTableMarker(l).ok)
  IN  [k \in 1..Len(markers) |-> ParseTableMarker(markers[k])]

\* table_edits: entry k is the grid of the k-th marker line, null when malformed
FilterTableEdits(new_lines) ==
  LET markers == SelectSeq(new_lines, HasMarker)
  IN  [k \in 1..Len(markers) |-> ParseTableMarker(markers[k])]

\* ----------------------------------------------------- FormatPreservingPatcher
\* a replacement that writes the text into a fresh run
ReplaceText_newRun(p, new_text) ==
  IF p.runs = <<>> THEN p ELSE [p EXCEPT !.runs = <<Run("default", new_text)>>]

\* first_run.text = new_text; while len(paragraph.runs) > 1: remove last run
ReplaceText(p, new_text) ==
  IF p.runs = <<>> THEN p
  ELSE [p EXCEPT !.runs = <<[p.runs[1] EXCEPT !.text = new_text]>>]

EditParagraph(p, new_text) ==
  LET original_text == Strip(ParagraphText(p))
  IN  IF original_text # <<>> /\ new_text # original_text
      THEN ReplaceText(p, new_text) ELSE p

\* value of the counter paragraph_index when block i is visited
RECURSIVE ParagraphIndex(_, _)
ParagraphIndex(blocks, i) ==
  IF i <= 1 THEN 0
  ELSE ParagraphIndex(blocks, i - 1)
         + (IF blocks[i - 1].kind = "p" /\ Strip(ParagraphText(blocks[i - 1])) # <<>>
            THEN 1 ELSE 0)

\* a table counter that advances on every block
TableIndex_countsBlocks(blocks, i) == IF i <= 1 THEN 0 ELSE i - 1

\* value of the counter table_index when block i is visited
RECURSIVE TableIndex(_, _)
TableIndex(blocks, i) ==
  IF i <= 1 THEN 0
  ELSE TableIndex(blocks, i - 1) + (IF blocks[i - 1].kind = "t" THEN 1 ELSE 0)

PatchParagraph(p, paragraph_index, content) ==
  LET original_text == Strip(ParagraphText(p))
  IN  IF original_text # <<>>
      THEN IF paragraph_index < Len(content)
           THEN EditParagraph(p, content[paragraph_index + 1])
           ELSE p
      ELSE p

\* a cell edit that writes the new text into every paragraph of the cell
PatchCell_everyParagraph(cell, new_cell_text) ==
  [cell EXCEPT !.paras =
    [k \in 1..Len(cell.paras) |-> EditParagraph(cell.paras[k], new_cell_text)]]

PatchCell(cell, new_cell_text) ==
  IF cell.paras = <<>> THEN cell
  ELSE [cell EXCEPT !.paras[1] = EditParagraph(cell.paras[1], new_cell_text)]

\* a table patch that gives the table the rows and cells of the edited grid
PatchTable_takesGridShape(t, table_index, edits) ==
  IF table_index < Len(edits) /\ edits[table_index + 1].ok
  THEN LET g == edits[table_index + 1].grid
       IN  [t EXCEPT !.rows =
             [r \in 1..Len(g) |->
               [c \in 1..Len(g[r]) |->
                 IF r <= Len(t.rows) /\ c <= Len(t.rows[r])
                 THEN PatchCell(t.rows[r][c], g[r][c])
                 ELSE Cell(<<Paragraph(<<Run("plain", g[r][c])>>)>>)]]]
  ELSE t

PatchTable(t, table_index, edits) ==
  IF table_index < Len(edits) /\ edits[table_index + 1].ok
  THEN LET g == edits[table_index + 1].grid
       IN  [t EXCEPT !.rows =
             [r \in 1..Len(t.rows) |->
               [c \in 1..Len(t.rows[r]) |->
                 IF r <= Len(g) /\ c <= Len(g[r])
                 THEN PatchCell(t.rows[r][c], g[r][c])
                 ELSE t.rows[r][c]]]]
  ELSE t

PatchBlock(blocks, i, content, edits) ==
  IF blocks[i].kind = "p"
  THEN PatchParagraph(blocks[i], ParagraphIndex(blocks, i), content)
  ELSE PatchTable(blocks[i], TableIndex(blocks, i), edits)

\* the document after the traversal has handled its first k blocks
PatchPrefix(d, content, edits, k) ==
  [d EXCEPT !.blocks =
    [i \in 1..Len(d.blocks) |->
      IF i <= k THEN PatchBlock(d.blocks, i, content, edits) ELSE d.blocks[i]]]

patch(d, content, edits) == PatchPrefix(d, content, edits, Len(d.blocks))

\* ------------------------------------------------------------ FallbackRebuilder
DefaultParagraph(t) ==
  [Paragraph(IF t = <<>> THEN <<>> ELSE <<Run("default", t)>>) EXCEPT !.props = "default"]

DefaultTable(g) ==
  [Table([r \in 1..Len(g) |->
           [c \in 1..Len(g[r]) |->
             [Cell(<<DefaultParagraph(g[r][c])>>) EXCEPT !.props = "default"]]])
     EXCEPT !.props = "default"]

RebuildLine(l) ==
  IF l.kind = "text" THEN DefaultParagraph(l.text) ELSE DefaultTable(l.grid)

\* a rebuild that leaves blank lines out
rebuild_skipBlank(flat) ==
  LET lines == SelectSeq(ParseLines(flat),
                         LAMBDA l : l.kind = "table" \/ l.text # <<>>)
  IN  Document([i \in 1..Len(lines) |-> RebuildLine(lines[i])], "default")

\* doc = Document(): a new document built from the flat text alone
rebuild(flat) ==
  LET lines == ParseLines(flat)
  IN  Document([i \in 1..Len(lines) |-> RebuildLine(lines[i])], "default")

\* -------------------------------------------------------------- file system
Stems == {"contrato"}

Path(stem) == stem \o ".docx"

\* an edited file saved under the name of the original
DerivedPath_inPlace(stem) == stem \o ".docx"

DerivedPath(stem) == stem \o "_editado.docx"

WriteFile(fs, path, d) ==
  [q \in DOMAIN fs \cup {path} |-> IF q = path THEN d ELSE fs[q]]

NoDoc == Document(<<>>, "none")

NoResult == [status |-> "none", path |-> "", degraded |-> FALSE]

\* what is remembered of the call before the current one
NoPrev == [content |-> <<>>, status |-> "none", path |-> "", degraded |-> FALSE,
           saved |-> NoDoc]

\* a second request served at the same time: its position, its edited text,
\* its own in-memory document, its rebuilt document and its result
NoCall == [pc |-> "Off", content |-> <<>>, doc |-> NoDoc, rebuilt |-> NoDoc,
           result |-> NoResult]

\* ------------------------------------------------------------ inputs of a call
TextLinePool == {<<>>, <<"a">>, <<"c">>}

MarkerLinePool ==
  {<<OPEN, ToJson(g), CLOSE>> : g \in {G_rowEdit, G_colEdit, G_grown}}
    \cup {<<OPEN, BadJson, CLOSE>>, <<OPEN, ToJson(G_rowEdit)>>}

LinePool == TextLinePool \cup MarkerLinePool

IdentityLines(d) == [i \in 1..Len(extract(d)) |-> SerializeLine(extract(d)[i])]

OneLineEdits(d) ==
  {[IdentityLines(d) EXCEPT ![i] = l] : i \in 1..Len(extract(d)), l \in LinePool}

EditedLines(d) ==
  SeqsUpTo(LinePool, MaxLines) \cup {IdentityLines(d)} \cup OneLineEdits(d)

EditedTexts(d) == {JoinLines(ls) : ls \in EditedLines(d)}

\* ------------------------------------------------- the front end before use
\* the contract opened in the editor
filename == "contrato.docx"

\* no save under way
NoSave == [phase |-> "idle", finalContent |-> <<>>, expected |-> <<>>,
           edited_file |-> "", requested |-> ""]

\* textParts = {}
NoTextParts == [k \in {} |-> <<>>]

\* the useState defaults of the editor
ViewerDefaults ==
  /\ viewerContent = <<>>
  /\ editedContent = <<>>
  /\ isLoading = TRUE
  /\ isSaving = FALSE
  /\ isEditing = FALSE
  /\ editableTables = <<>>
  /\ textParts = NoTextParts
  /\ save = NoSave
  /\ outstanding = 0
  /\ userEdits = NoTextParts

\* no contract is open in the editor
ViewerIdle == served = <<>> /\ ViewerDefaults

\* no generation chain is running
NoChain == [at |-> "idle", groupIndex |-> 0, stepIndex |-> 0, list |-> <<>>]

\* viewerState = null
NoViewer == [open |-> FALSE, groupIndex |-> 0, stepIndex |-> 0,
             saving |-> FALSE, seen |-> <<>>]

\* the useState defaults of the generator
GeneratorIdle ==
  /\ isProcessing = FALSE
  /\ groupsProgress = <<>>
  /\ steps = <<>>
  /\ viewerState = NoViewer
  /\ chain = NoChain

\* the front end is not in use
FrontendIdle == ViewerIdle /\ GeneratorIdle

\* no request reaches the editing engine
EngineIdle ==
  /\ contract_path \in Stems
  /\ disk = [q \in {Path(contract_path)} |-> NoDoc]
  /\ new_content = <<>>
  /\ pc = "Idle"
  /\ doc = NoDoc
  /\ baseline = <<>>
  /\ paragraph_content = <<>>
  /\ table_edits = <<>>
  /\ rebuilt = NoDoc
  /\ result = NoResult
  /\ stages = <<>>
  /\ patchedBlocks = 0
  /\ patchRaised = FALSE
  /\ savedObject = "none"
  /\ rebuildCalls = 0
  /\ saveCalls = 0
  /\ calls = 1
  /\ prev = NoPrev
  /\ callB = NoCall
  /\ lastWriter = "none"

\* ----------------------------------------------------------- PatchOrchestrator
Init ==
  /\ contract_path \in Stems
  /\ \E d \in Docs :
       /\ disk = [q \in {Path(contract_path)} |-> d]
       /\ new_content \in EditedTexts(d)
  /\ pc = "Idle"
  /\ doc = NoDoc
  /\ baseline = <<>>
  /\ paragraph_content = <<>>
  /\ table_edits = <<>>
  /\ rebuilt = NoDoc
  /\ result = NoResult
  /\ stages = <<>>
  /\ patchedBlocks = 0
  /\ patchRaised = FALSE
  /\ savedObject = "none"
  /\ rebuildCalls = 0
  /\ saveCalls = 0
  /\ calls = 1
  /\ prev = NoPrev
  /\ callB = NoCall
  /\ lastWriter = "none"
  /\ FrontendIdle

\* a load that prefers the edited file of an earlier call
Load_prefersEdited ==
  /\ pc = "Idle"
  /\ doc' = IF DerivedPath(contract_path) \in DOMAIN disk
            THEN disk[DerivedPath(contract_path)]
            ELSE disk[Path(contract_path)]
  /\ pc' = "Loaded"
  /\ stages' = Append(stages, "Loaded")
  /\ UNCHANGED <<varsFrontend, calls, prev, callB, lastWriter, disk, contract_path,
                 new_content, baseline, table_edits, paragraph_content,
                 rebuilt, result, patchedBlocks, patchRaised, savedObject,
                 rebuildCalls, saveCalls>>

\* doc = Document(contract_path)
Load ==
  /\ pc = "Idle"
  /\ doc' = disk[Path(contract_path)]
  /\ pc' = "Loaded"
  /\ stages' = Append(stages, "Loaded")
  /\ UNCHANGED <<varsFrontend, calls, prev, callB, lastWriter, disk, contract_path, new_content, baseline, table_edits,
                 paragraph_content, rebuilt, result, patchedBlocks,
                 patchRaised, savedObject, rebuildCalls, saveCalls>>

\* the baseline is re-derived from the loaded document
Extract ==
  /\ pc = "Loaded"
  /\ baseline' = extract(doc)
  /\ pc' = "Extracted"
  /\ stages' = Append(stages, "Extracted")
  /\ UNCHANGED <<varsFrontend, calls, prev, callB, lastWriter, disk, contract_path, new_content, doc, table_edits,
                 paragraph_content, rebuilt, result, patchedBlocks,
                 patchRaised, savedObject, rebuildCalls, saveCalls>>

Map ==
  /\ pc = "Extracted"
  /\ ~HasUnterminatedMarker(new_content)
  /\ paragraph_content' = FilterParagraphContent(SplitLines(new_content))
  /\ table_edits' = FilterTableEdits(SplitLines(new_content))
  /\ pc' = "Mapped"
  /\ stages' = Append(stages, "Mapped")
  /\ UNCHANGED <<varsFrontend, calls, prev, callB, lastWriter, disk, contract_path, new_content, doc, baseline, rebuilt,
                 result, patchedBlocks, patchRaised, savedObject,
                 rebuildCalls, saveCalls>>

\* a parse error of the flat text that reaches the caller as it is
MapFail_surfaces ==
  /\ pc = "Extracted"
  /\ HasUnterminatedMarker(new_content)
  /\ result' = [status |-> "error", path |-> "", degraded |-> FALSE]
  /\ pc' = "Fatal"
  /\ UNCHANGED <<varsFrontend, calls, prev, callB, lastWriter, disk, contract_path, new_content, doc, baseline, table_edits,
                 paragraph_content, rebuilt, stages, patchedBlocks,
                 patchRaised, savedObject, rebuildCalls, saveCalls>>

\* the flat text cannot be parsed: the exception is caught like any other
\* raised by the selective method
MapFail ==
  /\ pc = "Extracted"
  /\ HasUnterminatedMarker(new_content)
  /\ pc' = "MapFailed"
  /\ UNCHANGED <<varsFrontend, calls, prev, callB, lastWriter, disk, contract_path, new_content, doc, baseline, table_edits,
                 paragraph_content, rebuilt, result, stages, patchedBlocks,
                 patchRaised, savedObject, rebuildCalls, saveCalls>>

PatchOk ==
  /\ pc = "Mapped"
  /\ doc' = patch(doc, paragraph_content, table_edits)
  /\ patchedBlocks' = Len(doc.blocks)
  /\ pc' = "Patched"
  /\ stages' = Append(stages, "Patched")
  /\ UNCHANGED <<varsFrontend, calls, prev, callB, lastWriter, disk, contract_path, new_content, baseline, table_edits,
                 paragraph_content, rebuilt, result, patchRaised, savedObject,
                 rebuildCalls, saveCalls>>

\* an exception raised after k blocks were already handled in place
PatchFail ==
  /\ pc = "Mapped"
  /\ \E k \in 0..Len(doc.blocks) :
       /\ doc' = PatchPrefix(doc, paragraph_content, table_edits, k)
       /\ patchedBlocks' = k
  /\ patchRaised' = TRUE
  /\ pc' = "PatchFailed"
  /\ UNCHANGED <<varsFrontend, calls, prev, callB, lastWriter, disk, contract_path, new_content, baseline, table_edits,
                 paragraph_content, rebuilt, result, stages, savedObject,
                 rebuildCalls, saveCalls>>

\* except Exception: return self.apply_text_edits(contract_path, new_content)
RebuildOk ==
  /\ pc \in {"PatchFailed", "MapFailed"}
  /\ WellFormed(new_content)
  /\ rebuilt' = rebuild(new_content)
  /\ rebuildCalls' = rebuildCalls + 1
  /\ pc' = "FallbackRebuilt"
  /\ stages' = Append(stages, "FallbackRebuilt")
  /\ UNCHANGED <<varsFrontend, calls, prev, callB, lastWriter, disk, contract_path, new_content, doc, baseline, table_edits,
                 paragraph_content, result, patchedBlocks, patchRaised,
                 savedObject, saveCalls>>

\* a failed rebuild that is tried once more
RebuildFail_retry ==
  /\ pc \in {"PatchFailed", "MapFailed"}
  /\ rebuildCalls < 2
  /\ rebuildCalls' = rebuildCalls + 1
  /\ UNCHANGED <<varsFrontend, calls, prev, callB, lastWriter, disk, contract_path, new_content, pc, doc, baseline,
                 table_edits, paragraph_content, rebuilt, result, stages,
                 patchedBlocks, patchRaised, savedObject, saveCalls>>

\* a failed rebuild that leaves the half-patched document at the derived path
RebuildFail_leavesFile ==
  /\ pc \in {"PatchFailed", "MapFailed"}
  /\ rebuildCalls' = rebuildCalls + 1
  /\ disk' = WriteFile(disk, DerivedPath(contract_path), doc)
  /\ result' = [status |-> "error", path |-> "", degraded |-> FALSE]
  /\ pc' = "Fatal"
  /\ UNCHANGED <<varsFrontend, calls, prev, callB, lastWriter, contract_path, new_content, doc, baseline, table_edits,
                 paragraph_content, rebuilt, stages, patchedBlocks, patchRaised,
                 savedObject, saveCalls>>

\* a rebuild that neither returns nor raises
RebuildFail_hangs ==
  /\ pc \in {"PatchFailed", "MapFailed"}
  /\ UNCHANGED vars

RebuildFail ==
  /\ pc \in {"PatchFailed", "MapFailed"}
  /\ rebuildCalls' = rebuildCalls + 1
  /\ result' = [status |-> "error", path |-> "", degraded |-> FALSE]
  /\ pc' = "Fatal"
  /\ UNCHANGED <<varsFrontend, calls, prev, callB, lastWriter, disk, contract_path, new_content, doc, baseline, table_edits,
                 paragraph_content, rebuilt, stages, patchedBlocks, patchRaised,
                 savedObject, saveCalls>>

\* a save that always writes the document that was patched in place
ObjectToSave_alwaysDoc == "doc"

\* the object handed to saveDocument: the patched original, or the new
\* document of the fallback
ObjectToSave == IF pc = "Patched" THEN "doc" ELSE "rebuilt"

\* a flag that never reports the fallback
DegradedFlag_never == FALSE

\* the flag returned with the path
DegradedFlag == pc = "FallbackRebuilt"

\* doc.save(edited_filepath); return
Save ==
  /\ pc \in {"Patched", "FallbackRebuilt"}
  /\ disk' = WriteFile(disk, DerivedPath(contract_path),
                       IF ObjectToSave = "doc" THEN doc ELSE rebuilt)
  /\ savedObject' = ObjectToSave
  /\ saveCalls' = saveCalls + 1
  /\ lastWriter' = "A"
  /\ result' = [status |-> "ok", path |-> DerivedPath(contract_path),
                degraded |-> DegradedFlag]
  /\ pc' = "Saved"
  /\ stages' = Append(stages, "Saved")
  /\ UNCHANGED <<varsFrontend, calls, prev, callB, contract_path, new_content, doc, baseline, table_edits,
                 paragraph_content, rebuilt, patchedBlocks, patchRaised,
                 rebuildCalls>>

\* the route serves the next request on the same original: the same edited
\* text again, or the text of the original as it is
NewCall ==
  /\ pc \in {"Saved", "Fatal"}
  /\ calls < MaxCalls
  /\ calls' = calls + 1
  /\ prev' = [content |-> new_content, status |-> result.status,
              path |-> result.path, degraded |-> result.degraded,
              saved |-> IF result.status = "ok" THEN disk[result.path] ELSE NoDoc]
  /\ new_content' \in {new_content, JoinLines(IdentityLines(disk[Path(contract_path)]))}
  /\ pc' = "Idle"
  /\ doc' = NoDoc
  /\ baseline' = <<>>
  /\ paragraph_content' = <<>>
  /\ table_edits' = <<>>
  /\ rebuilt' = NoDoc
  /\ result' = NoResult
  /\ stages' = <<>>
  /\ patchedBlocks' = 0
  /\ patchRaised' = FALSE
  /\ savedObject' = "none"
  /\ rebuildCalls' = 0
  /\ saveCalls' = 0
  /\ UNCHANGED <<varsFrontend, disk, contract_path, callB, lastWriter>>

Next ==
  \/ Load
  \/ Extract
  \/ Map
  \/ MapFail
  \/ PatchOk
  \/ PatchFail
  \/ RebuildOk
  \/ RebuildFail
  \/ Save

Spec == Init /\ [][Next]_vars


\* ------------------------------------------- calls one after the other
\* edited texts of the calls made in sequence: the text of the original as
\* it is, or with one line replaced
SeqTexts(d) == {JoinLines(ls) : ls \in {IdentityLines(d)} \cup OneLineEdits(d)}

\* originals of the calls made in sequence or at the same time
SmallBlockPool == {P_blank, P_ab, T_col}

SmallDocs ==
  {Document(bs, "media+headers+sectPr+styles") : bs \in SeqsUpTo(SmallBlockPool, MaxBlocks)}

InitSeq ==
  /\ contract_path \in Stems
  /\ \E d \in SmallDocs :
       /\ disk = [q \in {Path(contract_path)} |-> d]
       /\ new_content \in SeqTexts(d)
  /\ pc = "Idle"
  /\ doc = NoDoc
  /\ baseline = <<>>
  /\ paragraph_content = <<>>
  /\ table_edits = <<>>
  /\ rebuilt = NoDoc
  /\ result = NoResult
  /\ stages = <<>>
  /\ patchedBlocks = 0
  /\ patchRaised = FALSE
  /\ savedObject = "none"
  /\ rebuildCalls = 0
  /\ saveCalls = 0
  /\ calls = 1
  /\ prev = NoPrev
  /\ callB = NoCall
  /\ lastWriter = "none"
  /\ FrontendIdle

NextSeq ==
  \/ Load
  \/ Extract
  \/ Map
  \/ MapFail
  \/ PatchOk
  \/ PatchFail
  \/ RebuildOk
  \/ RebuildFail
  \/ Save
  \/ NewCall

SpecSeq == InitSeq /\ [][NextSeq]_vars

\* One call, on the originals and edited texts above. The call is one
\* sequential routine with blocking I/O and no cancellation: while a step of
\* it is possible, a step is taken.
FairSpec == InitSeq /\ [][Next]_vars /\ WF_vars(Next)

\* --------------------------------------------- the flat text sent to the client
\* a paragraph whose text holds a line break
P_br == Paragraph(<<Run("plain", <<"a", NL, "b">>)>>)

FlatDocs ==
  {Document(bs, "media+headers+sectPr+styles") :
     bs \in SeqsUpTo(BlockPool \cup {P_br}, MaxBlocks)}

InitFlat ==
  /\ contract_path \in Stems
  /\ \E d \in FlatDocs : disk = [q \in {Path(contract_path)} |-> d]
  /\ new_content = <<>>
  /\ pc = "Idle"
  /\ doc = NoDoc
  /\ baseline = <<>>
  /\ paragraph_content = <<>>
  /\ table_edits = <<>>
  /\ rebuilt = NoDoc
  /\ result = NoResult
  /\ stages = <<>>
  /\ patchedBlocks = 0
  /\ patchRaised = FALSE
  /\ savedObject = "none"
  /\ rebuildCalls = 0
  /\ saveCalls = 0
  /\ calls = 1
  /\ prev = NoPrev
  /\ callB = NoCall
  /\ lastWriter = "none"
  /\ FrontendIdle

\* the extracted lines are joined with newlines and sent as the content
GetContent ==
  /\ pc = "Extracted"
  /\ new_content' = Serialize(baseline)
  /\ pc' = "Sent"
  /\ UNCHANGED <<varsFrontend, calls, prev, callB, lastWriter, disk, contract_path, doc,
                 baseline, table_edits, paragraph_content, rebuilt, result,
                 stages, patchedBlocks, patchRaised, savedObject, rebuildCalls,
                 saveCalls>>

NextFlat ==
  \/ Load
  \/ Extract
  \/ GetContent

SpecFlat == InitFlat /\ [][NextFlat]_vars

\* ------------------------------------------------ two calls at the same time
\* A second request runs the same method on the same original while the
\* first one is under way. Each request works on its own objects; the two
\* meet only at the files, so the second request is followed from one file
\* access to the next: its load, its computation in memory, its save.
varsA == <<contract_path, new_content, pc, doc, baseline, table_edits,
           paragraph_content, rebuilt, result, stages, patchedBlocks,
           patchRaised, savedObject, rebuildCalls, saveCalls, calls, prev,
           varsFrontend>>

\* edited texts of the two requests
ConcTexts(d) ==
  {JoinLines(IdentityLines(d)), <<"c">>, <<OPEN, ToJson(G_colEdit), CLOSE>>,
   <<OPEN, ToJson(G_rowEdit)>>}

InitConc ==
  /\ contract_path \in Stems
  /\ \E d \in SmallDocs :
       /\ disk = [q \in {Path(contract_path)} |-> d]
       /\ new_content \in ConcTexts(d)
       /\ \E c \in ConcTexts(d) :
            callB = [NoCall EXCEPT !.pc = "Idle", !.content = c]
  /\ pc = "Idle"
  /\ doc = NoDoc
  /\ baseline = <<>>
  /\ paragraph_content = <<>>
  /\ table_edits = <<>>
  /\ rebuilt = NoDoc
  /\ result = NoResult
  /\ stages = <<>>
  /\ patchedBlocks = 0
  /\ patchRaised = FALSE
  /\ savedObject = "none"
  /\ rebuildCalls = 0
  /\ saveCalls = 0
  /\ calls = 1
  /\ prev = NoPrev
  /\ lastWriter = "none"
  /\ FrontendIdle

\* doc = Document(contract_path), in the second request
LoadB ==
  /\ callB.pc = "Idle"
  /\ callB' = [callB EXCEPT !.pc = "Loaded", !.doc = disk[Path(contract_path)]]
  /\ UNCHANGED <<disk, lastWriter>>
  /\ UNCHANGED varsA

\* the second request maps its text and patches its document
PatchOkB ==
  /\ callB.pc = "Loaded"
  /\ ~HasUnterminatedMarker(callB.content)
  /\ callB' = [callB EXCEPT
                 !.pc = "Patched",
                 !.doc = patch(callB.doc,
                               FilterParagraphContent(SplitLines(callB.content)),
                               FilterTableEdits(SplitLines(callB.content)))]
  /\ UNCHANGED <<disk, lastWriter>>
  /\ UNCHANGED varsA

\* the selective method of the second request raised and the old method
\* built a new document
FallbackB ==
  /\ callB.pc = "Loaded"
  /\ WellFormed(callB.content)
  /\ \E k \in 0..Len(callB.doc.blocks) :
       callB' = [callB EXCEPT
                  !.pc = "FallbackRebuilt",
                  !.doc = PatchPrefix(callB.doc,
                                      FilterParagraphContent(SplitLines(callB.content)),
                                      FilterTableEdits(SplitLines(callB.content)), k),
                  !.rebuilt = rebuild(callB.content)]
  /\ UNCHANGED <<disk, lastWriter>>
  /\ UNCHANGED varsA

\* both methods of the second request raised
FatalB ==
  /\ callB.pc = "Loaded"
  /\ callB' = [callB EXCEPT
                 !.pc = "Fatal",
                 !.result = [status |-> "error", path |-> "", degraded |-> FALSE]]
  /\ UNCHANGED <<disk, lastWriter>>
  /\ UNCHANGED varsA

\* a save that leaves a file already present at the derived path as it is
SaveB_keepsExisting ==
  /\ callB.pc \in {"Patched", "FallbackRebuilt"}
  /\ disk' = IF DerivedPath(contract_path) \in DOMAIN disk THEN disk
             ELSE WriteFile(disk, DerivedPath(contract_path),
                            IF callB.pc = "Patched" THEN callB.doc ELSE callB.rebuilt)
  /\ lastWriter' = "B"
  /\ callB' = [callB EXCEPT
                 !.pc = "Saved",
                 !.result = [status |-> "ok", path |-> DerivedPath(contract_path),
                             degraded |-> callB.pc = "FallbackRebuilt"]]
  /\ UNCHANGED varsA

\* doc.save(edited_filepath), in the second request
SaveB ==
  /\ callB.pc \in {"Patched", "FallbackRebuilt"}
  /\ disk' = WriteFile(disk, DerivedPath(contract_path),
                       IF callB.pc = "Patched" THEN callB.doc ELSE callB.rebuilt)
  /\ lastWriter' = "B"
  /\ callB' = [callB EXCEPT
                 !.pc = "Saved",
                 !.result = [status |-> "ok", path |-> DerivedPath(contract_path),
                             degraded |-> callB.pc = "FallbackRebuilt"]]
  /\ UNCHANGED varsA

NextConc ==
  \/ Load
  \/ Extract
  \/ Map
  \/ MapFail
  \/ PatchOk
  \/ PatchFail
  \/ RebuildOk
  \/ RebuildFail
  \/ Save
  \/ LoadB
  \/ PatchOkB
  \/ FallbackB
  \/ FatalB
  \/ SaveB

SpecConc == InitConc /\ [][NextConc]_vars

\* ============================================= ContractViewer (the editor)
\* String.prototype.indexOf from a position, 0 when the token is absent
indexOf(c, tok, from) ==
  IF \E i \in from..Len(c) : c[i] = tok
  THEN CHOOSE i \in from..Len(c) :
         c[i] = tok /\ \A j \in from..(i - 1) : c[j] # tok
  ELSE 0

Section(type, text) == [type |-> type, text |-> text]

\* the number of text sections: sections.filter(s => s.type === 'text').length
TextCount(sections) ==
  Cardinality({i \in 1..Len(sections) : sections[i].type = "text"})

\* the key of a text section in loadContent and updateFullEditedContent
TextKey(textIndex, sections) ==
  IF textIndex = TextCount(sections) - 1
  THEN "text-final" ELSE "text-" \o ToString(textIndex)

\* newParts[key] = value on a copy of the parts
Put(parts, key, value) ==
  [k \in DOMAIN parts \cup {key} |-> IF k = key THEN value ELSE parts[k]]

\* editableTables[tableIndex] || originalData
EditedOr(tables, tableIndex, originalData) ==
  IF tableIndex + 1 <= Len(tables) /\ tables[tableIndex + 1].ok
  THEN tables[tableIndex + 1].grid ELSE originalData

\* the marker of a grid: JSON.stringify between the delimiters
MarkerOf(g) == <<OPEN, ToJson(g), CLOSE>>

\* the grids the editor meets: the one served and the one the user makes of it
ViewerGrids == {G_row, G_rowEdit}

\* their JSON texts
ViewerJson == [g \in ViewerGrids |-> ToJson(g)]

\* JSON.parse of the payload of a marker; ok is false when it throws
JSONparse(marker) ==
  IF Len(marker) = 3 /\ \E g \in ViewerGrids : ViewerJson[g] = marker[2]
  THEN [ok |-> TRUE,
        grid |-> CHOOSE g \in ViewerGrids : ViewerJson[g] = marker[2]]
  ELSE NullGrid

\* ---- loadContent: the sections of the received content and their keys
RECURSIVE LoadSections(_, _)
LoadSections(c, pos) ==
  IF pos > Len(c) THEN <<>>
  ELSE LET tableStart == indexOf(c, OPEN, pos)
           tableEnd == indexOf(c, CLOSE, tableStart)
           before == IF tableStart > pos
                     THEN <<Section("text", SubSeq(c, pos, tableStart - 1))>>
                     ELSE <<>>
       IN IF tableStart = 0 THEN <<Section("text", SubSeq(c, pos, Len(c)))>>
          ELSE IF tableEnd = 0
               THEN before \o <<Section("text", SubSeq(c, pos, Len(c)))>>
               ELSE before \o <<Section("table", SubSeq(c, tableStart, tableEnd))>>
                      \o LoadSections(c, tableEnd + 1)

RECURSIVE LoadParts(_, _, _, _)
LoadParts(sections, k, textIndex, tempParts) ==
  IF k > Len(sections) THEN tempParts
  ELSE IF sections[k].type = "text" /\ Strip(sections[k].text) # <<>>
       THEN LoadParts(sections, k + 1, textIndex + 1,
                      Put(tempParts, TextKey(textIndex, sections), sections[k].text))
       ELSE LoadParts(sections, k + 1, textIndex, tempParts)

\* the text parts that loadContent stores for a content
LoadTextParts(c) == LoadParts(LoadSections(c, 1), 1, 0, NoTextParts)

\* ---- the matches of /\[TABELA_JSON\](.*?)\[\/TABELA_JSON\]/g
RECURSIVE matchAll(_, _)
matchAll(c, from) ==
  LET tableStart == indexOf(c, OPEN, from)
      tableEnd == indexOf(c, CLOSE, tableStart + 1)
  IN IF tableStart = 0 THEN <<>>
     ELSE IF tableEnd = 0 THEN <<>>
     ELSE IF \E j \in (tableStart + 1)..(tableEnd - 1) : c[j] = NL
          THEN matchAll(c, tableStart + 1)
          ELSE <<[index |-> tableStart, end |-> tableEnd]>>
                 \o matchAll(c, tableEnd + 1)

\* ---- updateFullEditedContent
RECURSIVE MatchSections(_, _, _, _)
MatchSections(c, tableMatches, k, lastEnd) ==
  IF k > Len(tableMatches)
  THEN IF lastEnd <= Len(c)
       THEN <<Section("text", SubSeq(c, lastEnd, Len(c)))>> ELSE <<>>
  ELSE (IF tableMatches[k].index > lastEnd
        THEN <<Section("text", SubSeq(c, lastEnd, tableMatches[k].index - 1))>>
        ELSE <<>>)
       \o <<Section("table", SubSeq(c, tableMatches[k].index, tableMatches[k].end))>>
       \o MatchSections(c, tableMatches, k + 1, tableMatches[k].end + 1)

FullSections(c) ==
  IF matchAll(c, 1) = <<>> THEN <<Section("text", c)>>
  ELSE MatchSections(c, matchAll(c, 1), 1, 1)

\* what one section contributes, and the table index it was given
Piece(type, out, tableIndex) ==
  [type |-> type, out |-> out, tableIndex |-> tableIndex]

RECURSIVE FullPieces(_, _, _, _, _, _)
FullPieces(sections, k, textIndex, tableIndex, parts, tables) ==
  IF k > Len(sections) THEN <<>>
  ELSE IF sections[k].type = "text"
       THEN LET textKey == TextKey(textIndex, sections)
                updatedText == IF textKey \in DOMAIN parts
                               THEN parts[textKey] ELSE sections[k].text
            IN <<Piece("text", updatedText, -1)>>
                 \o FullPieces(sections, k + 1, textIndex + 1, tableIndex,
                               parts, tables)
       ELSE LET originalData == JSONparse(sections[k].text)
                out == IF originalData.ok
                       THEN MarkerOf(EditedOr(tables, tableIndex, originalData.grid))
                       ELSE sections[k].text
            IN <<Piece("table", out, tableIndex)>>
                 \o FullPieces(sections, k + 1, textIndex, tableIndex + 1,
                               parts, tables)

Outs(pieces) == Flatten([i \in 1..Len(pieces) |-> pieces[i].out])

updateFullEditedContent(c, parts, tables) ==
  IF c = <<>> THEN <<>>
  ELSE Outs(FullPieces(FullSections(c), 1, 0, 0, parts, tables))

\* ---- updateEditedContent: the replacement of every match
RECURSIVE ReplacePieces(_, _, _, _, _, _)
ReplacePieces(c, tableMatches, k, pos, tableIndex, tables) ==
  IF k > Len(tableMatches)
  THEN <<Piece("text", SubSeq(c, pos, Len(c)), -1)>>
  ELSE LET match == SubSeq(c, tableMatches[k].index, tableMatches[k].end)
           originalData == JSONparse(match)
           between == Piece("text", SubSeq(c, pos, tableMatches[k].index - 1), -1)
       IN IF originalData.ok
          THEN <<between,
                 Piece("table",
                       MarkerOf(EditedOr(tables, tableIndex, originalData.grid)),
                       tableIndex)>>
                 \o ReplacePieces(c, tableMatches, k + 1, tableMatches[k].end + 1,
                                  tableIndex + 1, tables)
          ELSE <<between, Piece("table", match, -1)>>
                 \o ReplacePieces(c, tableMatches, k + 1, tableMatches[k].end + 1,
                                  tableIndex, tables)

updateEditedContent(c, tables) ==
  Outs(ReplacePieces(c, matchAll(c, 1), 1, 1, 0, tables))

\* ---- processEditableContent: the parts shown in the editor
TextPart(textKey, currentText) ==
  [type |-> "text", key |-> textKey, tableIndex |-> -1, span |-> currentText,
   tableData |-> <<>>]

TablePart(tableIndex, raw, tableData) ==
  [type |-> "table", key |-> "", tableIndex |-> tableIndex, span |-> raw,
   tableData |-> tableData]

\* the text after the last table
FinalPart(currentText) ==
  IF currentText # <<>> THEN <<TextPart("text-final", currentText)>> ELSE <<>>

RECURSIVE Process(_, _, _, _, _)
Process(c, i, currentText, tableIndex, textPartIndex) ==
  IF i > Len(c) THEN FinalPart(currentText)
  ELSE
    LET tableStart == indexOf(c, OPEN, i)
        text == currentText \o SubSeq(c, i, tableStart - 1)
        shown == IF text # <<>>
                 THEN <<TextPart("text-" \o ToString(textPartIndex), text)>>
                 ELSE <<>>
        nextText == IF text # <<>> THEN textPartIndex + 1 ELSE textPartIndex
        tableEnd == indexOf(c, CLOSE, tableStart)
        raw == SubSeq(c, tableStart, tableEnd)
        tableData == JSONparse(raw)
    IN IF tableStart = 0
       THEN FinalPart(currentText \o SubSeq(c, i, Len(c)))
       ELSE IF tableEnd = 0
            THEN shown \o FinalPart(SubSeq(c, tableStart, Len(c)))
            ELSE IF tableData.ok
                 THEN shown
                        \o (IF tableData.grid # <<>>
                            THEN <<TablePart(tableIndex, raw, tableData.grid)>>
                            ELSE <<>>)
                        \o Process(c, tableEnd + 1, <<>>, tableIndex + 1, nextText)
                 ELSE shown \o Process(c, tableEnd + 1, raw, tableIndex, nextText)

processEditableContent(c) == Process(c, 1, <<>>, 0, 0)

\* ---- what the server and the user may send
\* the contents of getContent: up to MaxContentLines lines, joined with newlines
ContentLinePool == {<<"a">>, MarkerOf(G_row), <<OPEN, BadJson, CLOSE>>}

ContentsUpTo(n) == {JoinLines(ls) : ls \in SeqsUpTo(ContentLinePool, n)}

\* what the user types into a text area
TypedTexts == {<<"c">>}

\* what the user types into a cell: row and cell count from 1
TypedCells == {[row |-> 1, cell |-> 2, value |-> <<"c">>]}

\* the file the save-edits route names in its response
EditedFile == "contrato_editado.docx"

\* the bodies of a save-edits response; edited_file "" stands for none
Responses ==
  {[success |-> TRUE, edited_file |-> EditedFile],
   [success |-> TRUE, edited_file |-> ""],
   [success |-> FALSE, edited_file |-> ""]}

\* the parts on screen: processEditableContent(editedContent || content)
Rendered ==
  processEditableContent(IF editedContent # <<>> THEN editedContent
                         ELSE viewerContent)

\* the loaded content with what the user typed in the place of each part typed
\* into
Expected ==
  LET parts == processEditableContent(viewerContent)
  IN Flatten([k \in 1..Len(parts) |->
               IF k \in DOMAIN userEdits THEN userEdits[k] ELSE parts[k].span])

\* nothing typed, updateFullEditedContent returns the content as loaded
LoadsUnchanged(c) == updateFullEditedContent(c, LoadTextParts(c), <<>>) = c

\* the Save button: disabled={isSaving}
SaveButtonDisabled == isSaving

\* a save is between the click and the end of its handler
SaveUnderWay == save.phase \in {"timer", "request", "download"}

\* ---- the handlers
\* the component is mounted for a contract and asks for its content
ViewerInit(contents) ==
  /\ served \in contents
  /\ ViewerDefaults
  /\ GeneratorIdle
  /\ EngineIdle

\* loadContent, from the response of getContent on
loadContent ==
  /\ isLoading
  /\ viewerContent' = served
  /\ editedContent' = served
  /\ editableTables' = <<>>
  /\ textParts' = LoadTextParts(served)
  /\ isLoading' = FALSE
  /\ userEdits' = NoTextParts
  /\ UNCHANGED <<served, isSaving, isEditing, save, outstanding,
                 varsEngine, varsGenerator>>

\* a click on Editar
ClickEdit ==
  /\ ~isLoading /\ ~isEditing
  /\ editedContent' = viewerContent
  /\ editableTables' = <<>>
  /\ isEditing' = TRUE
  /\ UNCHANGED <<served, viewerContent, isLoading, isSaving, textParts, save,
                 outstanding, userEdits,
                 varsEngine, varsGenerator>>

\* a click on Cancelar: the state is reset and the content asked for again
ClickCancel ==
  /\ ~isLoading /\ isEditing
  /\ editedContent' = viewerContent
  /\ editableTables' = <<>>
  /\ textParts' = NoTextParts
  /\ isEditing' = FALSE
  /\ isLoading' = TRUE
  /\ userEdits' = NoTextParts
  /\ UNCHANGED <<served, viewerContent, isSaving, save, outstanding,
                 varsEngine, varsGenerator>>

\* the user types value into the text area of part k, of key textKey; the
\* timer that follows runs updateFullEditedContent of the render the handler
\* was made in
updateTextPart(k, textKey, value) ==
  /\ textParts' = Put(textParts, textKey, value)
  /\ editedContent' =
       IF viewerContent = <<>> THEN editedContent
       ELSE updateFullEditedContent(viewerContent, textParts, editableTables)
  /\ userEdits' = Put(userEdits, k, value)
  /\ UNCHANGED <<served, viewerContent, isLoading, isSaving, isEditing,
                 editableTables, save, outstanding,
                 varsEngine, varsGenerator>>

\* the tables after updateCell of the table part p
CellUpdate(tables, p, e) ==
  LET padded == IF Len(tables) > p.tableIndex THEN tables
                ELSE tables \o [i \in 1..(p.tableIndex + 1 - Len(tables)) |->
                                 NullGrid]
      base == IF padded[p.tableIndex + 1].ok
              THEN padded[p.tableIndex + 1].grid ELSE p.tableData
  IN [padded EXCEPT ![p.tableIndex + 1] =
        [ok |-> TRUE, grid |-> [base EXCEPT ![e.row][e.cell] = e.value]]]

\* the user types into a cell of the table part p, shown at place k;
\* updateEditedContent then runs on the tables of the render, which the
\* handler changed in place when the table had a copy already
updateCell(k, p, e) ==
  LET shownData == EditedOr(editableTables, p.tableIndex, p.tableData)
      newTables == CellUpdate(editableTables, p, e)
      seen == IF p.tableIndex + 1 <= Len(editableTables)
                   /\ editableTables[p.tableIndex + 1].ok
              THEN newTables ELSE editableTables
  IN /\ e.row <= Len(shownData) /\ e.cell <= Len(shownData[e.row])
     /\ editableTables' = newTables
     /\ editedContent' = updateEditedContent(viewerContent, seen)
     /\ userEdits' = Put(userEdits, k, MarkerOf(newTables[p.tableIndex + 1].grid))
     /\ UNCHANGED <<served, viewerContent, isLoading, isSaving, isEditing,
                    textParts, save, outstanding,
                 varsEngine, varsGenerator>>

\* a click on Salvar: handleSave up to the setTimeout
handleSave ==
  /\ ~isLoading /\ isEditing /\ ~SaveButtonDisabled
  /\ isSaving' = TRUE
  /\ LET finalContent ==
           updateFullEditedContent(viewerContent, textParts, editableTables)
     IN /\ save' = [NoSave EXCEPT !.phase = "timer",
                                   !.finalContent = finalContent,
                                   !.expected = Expected]
        /\ editedContent' = IF viewerContent = <<>> THEN editedContent
                            ELSE finalContent
  /\ UNCHANGED <<served, viewerContent, isLoading, isEditing, editableTables,
                 textParts, outstanding, userEdits,
                 varsEngine, varsGenerator>>

\* the timer of handleSave fires: saveEdits(filename, finalContent || '')
SaveTimer ==
  /\ save.phase = "timer"
  /\ outstanding' = outstanding + 1
  /\ save' = [save EXCEPT !.phase = "request"]
  /\ UNCHANGED <<served, viewerContent, editedContent, isLoading, isSaving,
                 isEditing, editableTables, textParts, userEdits,
                 varsEngine, varsGenerator>>

\* a handler that asks for the file it was opened with
EditedFilename_original(response) == filename

\* response.edited_file || filename
EditedFilename(response) ==
  IF response.edited_file # "" THEN response.edited_file ELSE filename

\* saveEdits resolves; on success handleDownloadEdited is called
SaveResponds ==
  /\ save.phase = "request"
  /\ outstanding' = outstanding - 1
  /\ \E response \in Responses :
       IF response.success
       THEN /\ save' = [save EXCEPT !.phase = "download",
                                    !.edited_file = response.edited_file,
                                    !.requested = EditedFilename(response)]
            /\ UNCHANGED isSaving
       ELSE /\ isSaving' = FALSE
            /\ save' = [NoSave EXCEPT !.phase = "refused"]
  /\ UNCHANGED <<served, viewerContent, editedContent, isLoading, isEditing,
                 editableTables, textParts, userEdits,
                 varsEngine, varsGenerator>>

\* a handler without the finally clause
SaveThrows_noFinally ==
  /\ save.phase = "request"
  /\ outstanding' = outstanding - 1
  /\ save' = [NoSave EXCEPT !.phase = "threw"]
  /\ UNCHANGED <<served, viewerContent, editedContent, isLoading, isSaving,
                 isEditing, editableTables, textParts, userEdits,
                 varsEngine, varsGenerator>>

\* saveEdits rejects: catch, then finally
SaveThrows ==
  /\ save.phase = "request"
  /\ outstanding' = outstanding - 1
  /\ isSaving' = FALSE
  /\ save' = [NoSave EXCEPT !.phase = "threw"]
  /\ UNCHANGED <<served, viewerContent, editedContent, isLoading, isEditing,
                 editableTables, textParts, userEdits,
                 varsEngine, varsGenerator>>

\* handleDownloadEdited returns, the download done or its error caught,
\* then finally
DownloadSettles ==
  /\ save.phase = "download"
  /\ isSaving' = FALSE
  /\ save' = [NoSave EXCEPT !.phase = "saved"]
  /\ UNCHANGED <<served, viewerContent, editedContent, isLoading, isEditing,
                 editableTables, textParts, outstanding,
                 userEdits,
                 varsEngine, varsGenerator>>

\* the user types into a text area on screen, no save being under way
TypeText ==
  /\ ~isLoading /\ isEditing /\ ~SaveUnderWay
  /\ LET parts == Rendered
     IN \E k \in 1..Len(parts), value \in TypedTexts :
          /\ parts[k].type = "text"
          /\ updateTextPart(k, parts[k].key, value)

\* the user types into a cell on screen, no save being under way
TypeCell ==
  /\ ~isLoading /\ isEditing /\ ~SaveUnderWay
  /\ LET parts == Rendered
     IN \E k \in 1..Len(parts), e \in TypedCells :
          /\ parts[k].type = "table"
          /\ updateCell(k, parts[k], e)

NextViewer ==
  \/ loadContent
  \/ ClickEdit
  \/ ClickCancel
  \/ TypeText
  \/ TypeCell
  \/ handleSave
  \/ SaveTimer
  \/ SaveResponds
  \/ SaveThrows
  \/ DownloadSettles

InitViewer == ViewerInit(ContentsUpTo(MaxContentLines))

SpecViewer == InitViewer /\ [][NextViewer]_vars

\* The timer of handleSave fires, the request of saveEdits settles and the
\* download returns: the event loop runs every callback that is due.
FairSpecViewer ==
  /\ InitViewer /\ [][NextViewer]_vars
  /\ WF_vars(SaveTimer)
  /\ WF_vars(SaveResponds \/ SaveThrows)
  /\ WF_vars(DownloadSettles)

\* ======================================= ContractGenerator (generation by group)
\* The component keeps groupsProgress, one entry per selected group, and
\* generates the contracts of a group one company after the other: a chain
\* of awaits and timers that carries its own copy of the progress list.  The
\* steps array of a group is one object, shared by every copy of the list.

\* a GroupProgress entry
Group(groupSteps, isComplete, hasErrors) ==
  [steps |-> groupSteps, isComplete |-> isComplete, hasErrors |-> hasErrors]

\* the steps made from the companies of a lookup: all pending
initialSteps(k) == [i \in 1..k |-> "pending"]

\* the generate button is disabled while isProcessing
GenerateButtonDisabled == isProcessing

\* the chain that generates contracts is at a given point
ChainAt(at) == chain.at = at

\* the generator alone is in use
GeneratorInit == ViewerIdle /\ GeneratorIdle /\ EngineIdle

\* the user clicks the generate button with one or more groups selected;
\* one generation per session
handleGenerateContracts ==
  /\ ~GenerateButtonDisabled
  /\ ChainAt("idle")
  /\ \E n \in 1..MaxGroups :
       LET initialGroupsProgress == [g \in 1..n |-> Group(<<>>, FALSE, FALSE)]
       IN  /\ groupsProgress' = initialGroupsProgress
           /\ chain' = [NoChain EXCEPT !.at = "lookup", !.groupIndex = 1,
                                       !.list = initialGroupsProgress]
  /\ isProcessing' = TRUE
  /\ UNCHANGED <<steps, viewerState, varsViewer, varsEngine>>

\* generateGroupContracts up to its first await: the group is complete, or
\* the step becomes 'generating' and the request is sent
generateGroupContracts(groupIndex, currentProgress, stepIndex) ==
  LET group == currentProgress[groupIndex]
  IN  IF stepIndex > Len(group.steps)
      THEN /\ groupsProgress' =
                [currentProgress EXCEPT ![groupIndex] =
                   Group(group.steps, TRUE,
                         \E i \in 1..Len(group.steps) : group.steps[i] = "error")]
           /\ isProcessing' = FALSE
           /\ chain' = [NoChain EXCEPT !.at = "done"]
      ELSE LET updatedProgress ==
                 [currentProgress EXCEPT
                    ![groupIndex].steps[stepIndex] = "generating"]
           IN  /\ groupsProgress' = updatedProgress
               /\ chain' = [at |-> "generating", groupIndex |-> groupIndex,
                            stepIndex |-> stepIndex, list |-> updatedProgress]
               /\ UNCHANGED isProcessing

\* generateGroup after the lookup answered with the companies of the group
generateGroup ==
  /\ ChainAt("lookup")
  /\ \E k \in 0..MaxCompanies :
       generateGroupContracts(
         chain.groupIndex,
         [chain.list EXCEPT ![chain.groupIndex].steps = initialSteps(k)],
         1)
  /\ UNCHANGED <<steps, viewerState, varsViewer, varsEngine>>

\* generateGroup after the lookup answered success == false, or threw: the
\* group is marked complete with errors and the function returns
generateGroupFails ==
  /\ ChainAt("lookup")
  /\ \E how \in {"refused", "threw"} :
       chain' = [chain EXCEPT !.at = how]
  /\ groupsProgress' =
       [chain.list EXCEPT ![chain.groupIndex] =
          Group(chain.list[chain.groupIndex].steps, TRUE, TRUE)]
  /\ UNCHANGED <<isProcessing, steps, viewerState, varsViewer, varsEngine>>

\* the generation of one company answers: generated, or error (success ==
\* false, or a throw); the chain publishes its list and sets the timer
GroupStepResponds ==
  /\ ChainAt("generating")
  /\ \E status \in {"generated", "error"} :
       LET updatedProgress ==
             [chain.list EXCEPT
                ![chain.groupIndex].steps[chain.stepIndex] = status]
       IN  /\ groupsProgress' = updatedProgress
           /\ chain' = [chain EXCEPT !.at = "timer", !.list = updatedProgress]
  /\ UNCHANGED <<isProcessing, steps, viewerState, varsViewer, varsEngine>>

\* the 500 ms timer fires: the next company
GroupStepTimer ==
  /\ ChainAt("timer")
  /\ generateGroupContracts(chain.groupIndex, chain.list, chain.stepIndex + 1)
  /\ UNCHANGED <<steps, viewerState, varsViewer, varsEngine>>

\* the user opens a generated contract of the group on display
handleEditGroupContract ==
  /\ ~viewerState.open
  /\ groupsProgress # <<>>
  /\ \E stepIndex \in 1..Len(groupsProgress[1].steps) :
       /\ groupsProgress[1].steps[stepIndex] = "generated"
       /\ viewerState' = [NoViewer EXCEPT !.open = TRUE, !.groupIndex = 1,
                                          !.stepIndex = stepIndex]
  /\ UNCHANGED <<isProcessing, groupsProgress, steps, chain,
                 varsViewer, varsEngine>>

\* the user clicks Save in the viewer: the save that now runs holds the
\* onSave of this render, and with it the progress list of this render
GroupSaveClicked ==
  /\ viewerState.open
  /\ ~viewerState.saving
  /\ viewerState' = [viewerState EXCEPT !.saving = TRUE, !.seen = groupsProgress]
  /\ UNCHANGED <<isProcessing, groupsProgress, steps, chain,
                 varsViewer, varsEngine>>

\* the save succeeded and the viewer calls onSave: the step becomes
\* 'completed' in the shared steps array, and the list of the render that
\* was clicked is published
handleGroupContractSaved ==
  /\ viewerState.open
  /\ viewerState.saving
  /\ LET g == viewerState.groupIndex
         shared == [groupsProgress[g].steps EXCEPT
                      ![viewerState.stepIndex] = "completed"]
     IN  /\ groupsProgress' = [viewerState.seen EXCEPT ![g].steps = shared]
         /\ chain' = IF chain.list = <<>> THEN chain
                     ELSE [chain EXCEPT !.list[g].steps = shared]
  /\ viewerState' = NoViewer
  /\ UNCHANGED <<isProcessing, steps, varsViewer, varsEngine>>

\* one step of the generator by group
NextGroups ==
  \/ handleGenerateContracts
  \/ generateGroup
  \/ generateGroupFails
  \/ GroupStepResponds
  \/ GroupStepTimer
  \/ handleEditGroupContract
  \/ GroupSaveClicked
  \/ handleGroupContractSaved

\* generation by group, users and backend free
SpecGroups == GeneratorInit /\ [][NextGroups]_vars

\* every request is answered or throws, and every timer fires
FairSpecGroups ==
  /\ GeneratorInit /\ [][NextGroups]_vars
  /\ WF_vars(generateGroup \/ generateGroupFails)
  /\ WF_vars(GroupStepResponds)
  /\ WF_vars(GroupStepTimer)

\* ======================================= ContractGenerator (one list of steps)
\* The component keeps one list, steps.  Every call of generateNextContract
\* copies the list it was given and publishes that copy; handleContractSaved
\* copies the list of its own render.

\* generateNextContract up to its first await
generateNextContract(currentSteps, stepIndex) ==
  IF stepIndex > Len(currentSteps)
  THEN /\ isProcessing' = FALSE
       /\ chain' = [NoChain EXCEPT !.at = "done"]
       /\ UNCHANGED steps
  ELSE LET updatedSteps == [currentSteps EXCEPT ![stepIndex] = "generating"]
       IN  /\ steps' = updatedSteps
           /\ chain' = [at |-> "generating", groupIndex |-> 0,
                        stepIndex |-> stepIndex, list |-> updatedSteps]
           /\ UNCHANGED isProcessing

\* the user clicks the generate button with a company of a group selected:
\* the group is looked up
handleGenerateByGroup ==
  /\ ~GenerateButtonDisabled
  /\ ChainAt("idle")
  /\ isProcessing' = TRUE
  /\ chain' = [NoChain EXCEPT !.at = "lookup"]
  /\ UNCHANGED <<groupsProgress, steps, viewerState, varsViewer, varsEngine>>

\* the lookup answered with the companies of the group
ListGroupFound ==
  /\ ChainAt("lookup")
  /\ \E k \in 0..MaxCompanies :
       generateNextContract(initialSteps(k), 1)
  /\ UNCHANGED <<groupsProgress, viewerState, varsViewer, varsEngine>>

\* the lookup answered success == false, or threw: only logged
ListGroupFails ==
  /\ ChainAt("lookup")
  /\ \E how \in {"refused", "threw"} :
       chain' = [chain EXCEPT !.at = how]
  /\ UNCHANGED <<isProcessing, groupsProgress, steps, viewerState,
                 varsViewer, varsEngine>>

\* the user clicks the generate button with companies without a group:
\* isProcessing is set and generateNextContract starts on the first of them
handleGenerateSelected ==
  /\ ~GenerateButtonDisabled
  /\ ChainAt("idle")
  /\ \E k \in 1..MaxCompanies :
       LET updatedSteps == [initialSteps(k) EXCEPT ![1] = "generating"]
       IN  /\ steps' = updatedSteps
           /\ chain' = [at |-> "generating", groupIndex |-> 0,
                        stepIndex |-> 1, list |-> updatedSteps]
  /\ isProcessing' = TRUE
  /\ UNCHANGED <<groupsProgress, viewerState, varsViewer, varsEngine>>

\* the generation of one company answers; the chain publishes its own list
StepResponds ==
  /\ ChainAt("generating")
  /\ \E status \in {"generated", "error"} :
       LET updatedSteps == [chain.list EXCEPT ![chain.stepIndex] = status]
       IN  /\ steps' = updatedSteps
           /\ chain' = [chain EXCEPT !.at = "timer", !.list = updatedSteps]
  /\ UNCHANGED <<isProcessing, groupsProgress, viewerState,
                 varsViewer, varsEngine>>

\* the timer fires: the next company, from the list of the chain
StepTimer ==
  /\ ChainAt("timer")
  /\ generateNextContract(chain.list, chain.stepIndex + 1)
  /\ UNCHANGED <<groupsProgress, viewerState, varsViewer, varsEngine>>

\* the user opens a contract that has a file
handleEditContract ==
  /\ ~viewerState.open
  /\ \E stepIndex \in 1..Len(steps) :
       /\ steps[stepIndex] \in {"generated", "completed"}
       /\ viewerState' = [NoViewer EXCEPT !.open = TRUE, !.stepIndex = stepIndex]
  /\ UNCHANGED <<isProcessing, groupsProgress, steps, chain,
                 varsViewer, varsEngine>>

\* the user clicks Save in the viewer: the save that now runs holds the
\* onSave of this render, and with it the steps of this render
SaveClicked ==
  /\ viewerState.open
  /\ ~viewerState.saving
  /\ viewerState' = [viewerState EXCEPT !.saving = TRUE, !.seen = steps]
  /\ UNCHANGED <<isProcessing, groupsProgress, steps, chain,
                 varsViewer, varsEngine>>

\* the save succeeded and the viewer calls onSave
handleContractSaved ==
  /\ viewerState.open
  /\ viewerState.saving
  /\ steps' = [viewerState.seen EXCEPT ![viewerState.stepIndex] = "completed"]
  /\ viewerState' = NoViewer
  /\ UNCHANGED <<isProcessing, groupsProgress, chain, varsViewer, varsEngine>>

\* one step of the generator with one list
NextSteps ==
  \/ handleGenerateByGroup
  \/ ListGroupFound
  \/ ListGroupFails
  \/ handleGenerateSelected
  \/ StepResponds
  \/ StepTimer
  \/ handleEditContract
  \/ SaveClicked
  \/ handleContractSaved

\* generation with one list, users and backend free
SpecSteps == GeneratorInit /\ [][NextSteps]_vars

\* ================================================================= properties
Original == disk[Path(contract_path)]

SavedDocument == disk[DerivedPath(contract_path)]

IsEmptyParagraph(b) == b.kind = "p" /\ Strip(ParagraphText(b)) = <<>>

IsTextParagraph(b) == b.kind = "p" /\ Strip(ParagraphText(b)) # <<>>

\* the text of a paragraph, or of every paragraph of every cell of a table
BlockTexts(b) ==
  IF b.kind = "p" THEN <<ParagraphText(b)>>
  ELSE [r \in 1..Len(b.rows) |->
         [c \in 1..Len(b.rows[r]) |->
           [k \in 1..Len(b.rows[r][c].paras) |->
             ParagraphText(b.rows[r][c].paras[k])]]]

AllTexts(d) == [i \in 1..Len(d.blocks) |-> BlockTexts(d.blocks[i])]

IdentityEdit == new_content = Serialize(extract(Original))

IsPlainLine(line) == ~HasMarker(line)

\* the plain-text lines of a flat text; the empty text has no line
PlainLines(flat) ==
  IF flat = <<>> THEN <<>> ELSE SelectSeq(SplitLines(flat), IsPlainLine)

\* number of top-level paragraphs, empty ones included, ahead of block i
ParagraphOrdinal(blocks, i) ==
  Cardinality({j \in 1..(i - 1) : blocks[j].kind = "p"})

TableOrdinal(blocks, i) ==
  Cardinality({j \in 1..(i - 1) : blocks[j].kind = "t"})

\* C2: the i-th top-level paragraph (empty paragraphs counted) is paired with
\* the i-th plain-text line of the edited text, marker lines taking no slot:
\* after a patch a paragraph that had text is either as it was or carries
\* that line, and a paragraph without text or without such a line is as it was.
C2_ParagraphAlignment ==
  pc = "Patched" =>
    \A i \in 1..Len(Original.blocks) :
      Original.blocks[i].kind = "p" =>
        LET n == ParagraphOrdinal(Original.blocks, i)
            plain == PlainLines(new_content)
        IN  IF IsTextParagraph(Original.blocks[i]) /\ n < Len(plain)
            THEN \/ doc.blocks[i] = Original.blocks[i]
                 \/ ParagraphText(doc.blocks[i]) = plain[n + 1]
            ELSE doc.blocks[i] = Original.blocks[i]

\* C3: extraction yields one line per top-level block, in order: the trimmed
\* text for a paragraph (empty or not), a marker for a table whose tableIndex
\* is the number of tables ahead of it, so indices strictly increase whatever
\* the number of paragraphs.
C3_OneLinePerBlock ==
  pc \notin {"Idle", "Loaded"} =>
    /\ Len(baseline) = Len(Original.blocks)
    /\ \A i \in 1..Len(Original.blocks) :
         /\ i <= Len(baseline)
         /\ IF Original.blocks[i].kind = "p"
            THEN baseline[i] = PlainTextLine(Strip(ParagraphText(Original.blocks[i])))
            ELSE /\ baseline[i].kind = "table"
                 /\ baseline[i].tableIndex = TableOrdinal(Original.blocks, i)
                 /\ baseline[i].grid = TableGrid(Original.blocks[i])
    /\ \A i, j \in 1..Len(baseline) :
         (i < j /\ baseline[i].kind = "table" /\ baseline[j].kind = "table")
           => baseline[i].tableIndex < baseline[j].tableIndex

\* a document with an empty paragraph ahead of a table was extracted
C3_Witness ==
  /\ pc = "Extracted"
  /\ \E i, j \in 1..Len(Original.blocks) :
       /\ i < j
       /\ IsEmptyParagraph(Original.blocks[i])
       /\ Original.blocks[j].kind = "t"
       /\ baseline[i] = PlainTextLine(<<>>)

SameShape(g, h) ==
  Len(g) = Len(h) /\ \A r \in 1..Len(g) : Len(g[r]) = Len(h[r])

CellsOf(g) == UNION {{<<r, c>> : c \in 1..Len(g[r])} : r \in 1..Len(g)}

DiffCells(g, h) == {rc \in CellsOf(g) : g[rc[1]][rc[2]] # h[rc[1]][rc[2]]}

\* the edited text is the extraction of the original with the grid of table
\* block i replaced by g, which differs from it in the one cell [r][c]
OneCellEdit(i, g, r, c) ==
  /\ Original.blocks[i].kind = "t"
  /\ SameShape(g, TableGrid(Original.blocks[i]))
  /\ DiffCells(g, TableGrid(Original.blocks[i])) = {<<r, c>>}
  /\ new_content =
       JoinLines([IdentityLines(Original) EXCEPT ![i] = <<OPEN, ToJson(g), CLOSE>>])

RunsPreserved(new, old) ==
  /\ new.kind = old.kind
  /\ new.props = old.props
  /\ Len(new.runs) <= Len(old.runs)
  /\ \A k \in 1..Len(new.runs) : new.runs[k].fmt = old.runs[k].fmt

UneditedTable(i) ==
  LET k == TableOrdinal(Original.blocks, i)
  IN  \/ k >= Len(table_edits)
      \/ ~table_edits[k + 1].ok
      \/ table_edits[k + 1].grid = TableGrid(Original.blocks[i])

C7_PatchAtomicity ==
  (pc = "Saved" /\ patchRaised) =>
    /\ savedObject = "rebuilt"
    /\ SavedDocument = rebuilt
    /\ SavedDocument # doc

\* the patch raised after it had already rewritten a block, and a document
\* was saved
C7_Witness ==
  /\ pc = "Saved" /\ patchRaised
  /\ patchedBlocks >= 1
  /\ doc # Original

IsPrefix(s, t) == Len(s) <= Len(t) /\ \A i \in 1..Len(s) : s[i] = t[i]

C10_FallbackFailure ==
  /\ (pc = "Fatal" /\ patchRaised) =>
       /\ rebuildCalls = 1
       /\ result.status = "error"
       /\ saveCalls = 0
       /\ calls = 1 => DerivedPath(contract_path) \notin DOMAIN disk
       /\ (calls > 1 /\ prev.status = "ok") => SavedDocument = prev.saved
  /\ result.status = "ok" => pc = "Saved"

\* both the patch, after rewriting a block, and the rebuild raised
C10_Witness ==
  pc = "Fatal" /\ patchRaised /\ patchedBlocks >= 1 /\ doc # Original

\* the plain-text line at the slot of top-level paragraph i, empty paragraphs
\* counted and marker lines skipped
HasAlignedLine(i) ==
  ParagraphOrdinal(Original.blocks, i) < Len(PlainLines(new_content))

AlignedLine(i) == PlainLines(new_content)[ParagraphOrdinal(Original.blocks, i) + 1]

\* C15: a paragraph with text and at least one run whose aligned edited line
\* exists and differs from its text has, after the patch, exactly one run,
\* with the formatting of its first run and the edited line as text.
C15_SingleRunReplacement ==
  pc = "Patched" =>
    \A i \in 1..Len(Original.blocks) :
      LET old == Original.blocks[i]
          new == doc.blocks[i]
      IN  (/\ IsTextParagraph(old)
           /\ Len(old.runs) >= 1
           /\ HasAlignedLine(i)
           /\ AlignedLine(i) # Strip(ParagraphText(old)))
            => /\ Len(new.runs) = 1
               /\ new.runs[1].fmt = old.runs[1].fmt
               /\ new.runs[1].text = AlignedLine(i)

\* C16: a paragraph whose aligned edited line equals its text is left as it
\* was by the patch, with all of its runs.
C16_EqualTextUntouched ==
  pc = "Patched" =>
    \A i \in 1..Len(Original.blocks) :
      (/\ Original.blocks[i].kind = "p"
       /\ HasAlignedLine(i)
       /\ AlignedLine(i) = Strip(ParagraphText(Original.blocks[i])))
        => doc.blocks[i] = Original.blocks[i]

\* C17: a paragraph without text, or without runs, is left as it was by the
\* patch whatever its aligned line, and it takes its line slot: a later
\* paragraph is as it was or carries the line of its own slot.
C17_EmptyParagraphKeepsSlot ==
  pc = "Patched" =>
    \A i \in 1..Len(Original.blocks) :
      (Original.blocks[i].kind = "p"
         /\ (IsEmptyParagraph(Original.blocks[i]) \/ Original.blocks[i].runs = <<>>))
        => /\ doc.blocks[i] = Original.blocks[i]
           /\ \A j \in (i + 1)..Len(Original.blocks) :
                Original.blocks[j].kind = "p" =>
                  \/ doc.blocks[j] = Original.blocks[j]
                  \/ HasAlignedLine(j) /\ ParagraphText(doc.blocks[j]) = AlignedLine(j)

\* the grid of the marker line of ordinal k in the edited text
MarkerLines(flat) == SelectSeq(ParseLines(flat), LAMBDA l : l.kind = "table")

MarkerIsValid(flat, k) ==
  LET ms == SelectSeq(SplitLines(flat), HasMarker)
  IN  k < Len(ms) /\ ParseTableMarker(ms[k + 1]).ok

C19_Undersupply ==
  pc = "Patched" =>
    \A i \in 1..Len(Original.blocks) :
      (/\ Original.blocks[i].kind = "p"
       /\ Len(PlainLines(new_content))
            < Cardinality({j \in 1..Len(Original.blocks) : Original.blocks[j].kind = "p"}))
        => IF HasAlignedLine(i)
           THEN \/ doc.blocks[i] = Original.blocks[i]
                \/ ParagraphText(doc.blocks[i]) = AlignedLine(i)
           ELSE doc.blocks[i] = Original.blocks[i]

\* the marker line of ordinal k is a marker whose JSON does not parse
MarkerIsMalformed(flat, k) ==
  LET ms == SelectSeq(SplitLines(flat), HasMarker)
  IN  k < Len(ms) /\ ~ParseTableMarker(ms[k + 1]).ok

\* the edited text with the marker line of ordinal k replaced by the marker of g
RECURSIVE ReplaceMarkerFrom(_, _, _, _)
ReplaceMarkerFrom(ls, i, k, g) ==
  IF i > Len(ls) THEN <<>>
  ELSE IF HasMarker(ls[i])
       THEN (IF k = 0 THEN <<<<OPEN, ToJson(g), CLOSE>>>> ELSE <<ls[i]>>)
              \o ReplaceMarkerFrom(ls, i + 1, k - 1, g)
       ELSE <<ls[i]>> \o ReplaceMarkerFrom(ls, i + 1, k, g)

WithMarker(flat, k, g) == JoinLines(ReplaceMarkerFrom(SplitLines(flat), 1, k, g))

\* C20: when the JSON of the marker of ordinal k does not parse, entry k of
\* the table edits is null, the table of ordinal k is as it was, every other
\* block is what the patch gives when that marker carries a well-formed
\* grid instead, and a completed patch is saved as not degraded.
C20_MalformedMarkerIsolation ==
  /\ pc \in {"Patched", "Saved"} /\ ~patchRaised =>
       \A k \in 0..(Len(table_edits) - 1) :
         MarkerIsMalformed(new_content, k) =>
           /\ table_edits[k + 1] = NullGrid
           /\ \A i \in 1..Len(Original.blocks) :
                IF Original.blocks[i].kind = "t" /\ TableOrdinal(Original.blocks, i) = k
                THEN doc.blocks[i] = Original.blocks[i]
                ELSE \A g \in GridPool :
                       LET alt == SplitLines(WithMarker(new_content, k, g))
                       IN  doc.blocks[i] =
                             patch(Original, FilterParagraphContent(alt),
                                   FilterTableEdits(alt)).blocks[i]
  /\ (pc = "Saved" /\ ~patchRaised) => ~result.degraded

\* a malformed first marker, with a table for it, and a valid second marker
\* that rewrote the second table; the patched document was saved
C20_Witness ==
  /\ pc = "Saved" /\ ~patchRaised /\ ~result.degraded
  /\ MarkerIsMalformed(new_content, 0)
  /\ MarkerIsValid(new_content, 1)
  /\ Len(Original.blocks) = 2
  /\ Original.blocks[1].kind = "t"
  /\ doc.blocks[2] # Original.blocks[2]

\* C11: whatever the edited text (more or fewer lines than paragraphs, a
\* marker whose JSON does not parse, a marker that is not closed) and whether
\* or not the patch raised, a call ends with an error only in the state
\* reached by a rebuild that raised, after exactly one rebuild attempt and no
\* save; every other end of a call is a save that returns {path, degraded}.
C11_OnlyFallbackFailureSurfaces ==
  /\ result.status = "error" =>
       /\ pc = "Fatal"
       /\ rebuildCalls = 1
       /\ saveCalls = 0
  /\ pc = "Fatal" => result.status = "error" /\ rebuildCalls = 1
  /\ pc = "Saved" =>
       /\ result.status = "ok"
       /\ result.path = DerivedPath(contract_path)
       /\ result.degraded \in BOOLEAN
  /\ pc = "MapFailed" => result = NoResult
  /\ pc = "PatchFailed" => result = NoResult

\* an edited text with a marker that is not closed: the mapping raised, the
\* fallback ran and it was the rebuild that raised
C11_Witness ==
  /\ pc = "Fatal"
  /\ HasUnterminatedMarker(new_content)
  /\ ~patchRaised
  /\ rebuildCalls = 1

\* C12: no step of any call, whether it saves the patched document, saves the
\* rebuilt one or fails, changes the file at the path of the original, and
\* the only path a step writes is the derived path, which is not the path of
\* the original.
C12_OriginalNeverOverwritten ==
  [][/\ Path(contract_path) \in DOMAIN disk'
     /\ disk'[Path(contract_path)] = disk[Path(contract_path)]
     /\ \A q \in DOMAIN disk' :
          (q \notin DOMAIN disk \/ disk'[q] # disk[q])
            => q = DerivedPath(contract_path) /\ q # Path(contract_path)]_vars

\* a second call saved a patched document that differs from the original,
\* after a first call that saved a rebuilt one
C12_Witness ==
  /\ calls = 2 /\ pc = "Saved"
  /\ prev.status = "ok" /\ prev.degraded
  /\ ~result.degraded
  /\ SavedDocument # Original
  /\ prev.saved # Original

\* C13: when the same edited text is applied again to the same original and
\* both calls end the same way (both by the patch, or both by the fallback),
\* the document saved by the second call has the paragraph and cell texts of
\* the one saved by the first, at the same derived path; the second call
\* patches the original, not the output of the first.
C13_Idempotence ==
  /\ (calls > 1 /\ pc \in {"Loaded", "Extracted", "Mapped"}) => doc = Original
  /\ (pc = "Saved" /\ calls > 1 /\ prev.status = "ok" /\ prev.content = new_content) =>
       /\ result.path = prev.path
       /\ prev.degraded = result.degraded =>
            /\ AllTexts(SavedDocument) = AllTexts(prev.saved)
            /\ SavedDocument = prev.saved

\* the same edit was applied twice by the patch and changed the original
C13_Witness ==
  /\ pc = "Saved" /\ calls = 2
  /\ prev.status = "ok" /\ prev.content = new_content
  /\ ~prev.degraded /\ ~result.degraded
  /\ AllTexts(SavedDocument) # AllTexts(Original)

\* the complete document each request hands to its save
OutputA == IF savedObject = "doc" THEN doc ELSE rebuilt

OutputB == IF callB.result.degraded THEN callB.rebuilt ELSE callB.doc

\* the document a request holds in memory is what its own edited text makes
\* of the original, whatever the other request did in the meantime
IndependentCopies ==
  /\ pc \in {"Loaded", "Extracted", "Mapped", "MapFailed"} => doc = Original
  /\ (pc = "Patched" \/ (pc = "Saved" /\ savedObject = "doc")) =>
       doc = patch(Original, FilterParagraphContent(SplitLines(new_content)),
                   FilterTableEdits(SplitLines(new_content)))
  /\ (pc = "FallbackRebuilt" \/ (pc = "Saved" /\ savedObject = "rebuilt")) =>
       rebuilt = rebuild(new_content)
  /\ callB.pc = "Loaded" => callB.doc = Original
  /\ (callB.pc = "Patched" \/ (callB.pc = "Saved" /\ ~callB.result.degraded)) =>
       callB.doc = patch(Original, FilterParagraphContent(SplitLines(callB.content)),
                         FilterTableEdits(SplitLines(callB.content)))
  /\ (callB.pc = "FallbackRebuilt" \/ (callB.pc = "Saved" /\ callB.result.degraded)) =>
       callB.rebuilt = rebuild(callB.content)

\* the file at the derived path is the whole output of the request that
\* saved last
LastWriterWins ==
  /\ lastWriter = "none" <=> DerivedPath(contract_path) \notin DOMAIN disk
  /\ lastWriter = "A" => pc = "Saved" /\ SavedDocument = OutputA
  /\ lastWriter = "B" => callB.pc = "Saved" /\ SavedDocument = OutputB

\* C14: when two calls on the same original are interleaved, the document
\* each holds in memory depends on its own edited text and the original only,
\* no step changes the file of the original, and the file at the derived
\* path they share is the complete output of the call that saved last.
C14_ConcurrentCalls ==
  /\ [](IndependentCopies /\ LastWriterWins)
  /\ [][disk'[Path(contract_path)] = disk[Path(contract_path)]]_vars

\* both requests saved different documents at the same derived path and the
\* second one saved last
C14_Witness ==
  /\ pc = "Saved" /\ callB.pc = "Saved"
  /\ result.path = callB.result.path
  /\ lastWriter = "B"
  /\ OutputA # OutputB
  /\ SavedDocument = OutputB
  /\ OutputA # Original /\ OutputB # Original

\* two blocks of the same kind and, for tables, the same rows and cells per row
SameStructure(old, new) ==
  /\ new.kind = old.kind
  /\ Len(new.rows) = Len(old.rows)
  /\ \A r \in 1..Len(old.rows) :
       /\ Len(new.rows[r]) = Len(old.rows[r])
       /\ \A c \in 1..Len(old.rows[r]) :
            Len(new.rows[r][c].paras) = Len(old.rows[r][c].paras)

\* C21: after a completed patch the document has the top-level blocks of the
\* original, as many and of the same kinds in the same order, and every table
\* has the rows and the cells per row it had, whatever the number of edited
\* lines and the shape of the edited grids.
C21_StructurePreserved ==
  pc = "Patched" =>
    /\ Len(doc.blocks) = Len(Original.blocks)
    /\ doc.other = Original.other
    /\ \A i \in 1..Len(Original.blocks) :
         SameStructure(Original.blocks[i], doc.blocks[i])

\* a patch changed a table whose edited grid has more rows than the table,
\* from an edited text with more plain lines than the original has paragraphs
C21_Witness ==
  /\ pc = "Patched"
  /\ Len(PlainLines(new_content))
       > Cardinality({j \in 1..Len(Original.blocks) : Original.blocks[j].kind = "p"})
  /\ \E i \in 1..Len(Original.blocks) :
       /\ Original.blocks[i].kind = "t"
       /\ doc.blocks[i] # Original.blocks[i]
       /\ MarkerIsValid(new_content, TableOrdinal(Original.blocks, i))
       /\ Len(MarkerLines(new_content)[TableOrdinal(Original.blocks, i) + 1].grid)
            > Len(Original.blocks[i].rows)

\* the content parses back to the extracted lines, one line per block
RoundTrips ==
  /\ ParseLines(new_content) = baseline
  /\ Len(SplitLines(new_content)) = Len(doc.blocks)

\* C22: for every document with at least one top-level block, the
\* newline-joined serialization of its extraction parses back to the
\* extracted lines, and the number of newline-separated lines is the number
\* of top-level blocks: one line per table, one per paragraph.
C22_FlatTextRoundTrip == (pc = "Sent" /\ Len(doc.blocks) >= 1) => RoundTrips

\* C23: every call ends: it reaches the state after a save, with a
\* {path, degraded} result, or the state after a fatal error, and does not
\* stay forever in Loaded, Extracted, Mapped, Patched or FallbackRebuilt nor
\* in the handler of a raised exception.
C23_Terminates == <>(pc \in {"Saved", "Fatal"})

\* a call ended with a fatal error after the patch had raised
C23_Witness == pc = "Fatal" /\ patchRaised /\ ~WellFormed(new_content)

\* ------------------------------------------------------- the contract editor
\* C24: after a successful response of saveEdits that names an edited file,
\* the download that follows asks for that file and not for the file the
\* editor was opened with; the file the editor was opened with is asked for
\* only when the response names no edited file.
C24_DownloadsEditedFile ==
  save.phase = "download" =>
    /\ save.edited_file # "" =>
         save.requested = save.edited_file /\ save.requested # filename
    /\ save.requested = filename => save.edited_file = ""

\* a download of the edited file is under way
C24_Witness ==
  save.phase = "download" /\ save.edited_file = EditedFile
    /\ save.requested = EditedFile

\* C25: the content passed to saveEdits is the loaded content with every
\* text section and table the user typed into replaced, at its own place, by
\* what the user typed last, and every other section unchanged.
\* Stated for the contents that updateFullEditedContent returns unchanged
\* when nothing was typed.
C25_AllEditsSaved ==
  (save.phase = "request" /\ LoadsUnchanged(viewerContent)) =>
    save.finalContent = save.expected

\* C26: right after loadContent, with nothing typed, updateFullEditedContent
\* returns the loaded content, whatever the arrangement of text and tables.
C26_NoEditIdentity ==
  (~isLoading /\ userEdits = NoTextParts) =>
    updateFullEditedContent(viewerContent, textParts, editableTables)
      = viewerContent

IsTablePart(p) == p.type = "table"

IsParsedTable(p) == p.type = "table" /\ JSONparse(p.out).ok

\* the table indexes of a sequence of parts or pieces
Indexes(ps) == [i \in 1..Len(ps) |-> ps[i].tableIndex]

\* the indexes updateCell stores the tables on screen under
RenderedIndexes == Indexes(SelectSeq(Rendered, IsTablePart))

\* the indexes updateFullEditedContent reads the same tables under
FullIndexes ==
  Indexes(SelectSeq(FullPieces(FullSections(viewerContent), 1, 0, 0,
                               textParts, editableTables), IsParsedTable))

\* the indexes updateEditedContent reads the same tables under
EditedIndexes ==
  Indexes(SelectSeq(ReplacePieces(viewerContent, matchAll(viewerContent, 1),
                                  1, 1, 0, editableTables), IsParsedTable))

\* C27: the index updateCell stores the grid of a table on screen under is
\* the index under which updateFullEditedContent and updateEditedContent
\* read it for the same marker, also after a marker whose JSON does not parse.
C27_TableIndexConsistency ==
  (isEditing /\ ~isLoading) =>
    RenderedIndexes = FullIndexes /\ RenderedIndexes = EditedIndexes

\* C28: from the click on Save to the end of the request isSaving is true,
\* so the button is disabled and the editor never has two requests of
\* saveEdits under way; and isSaving is false again after every outcome.
C28_SaveInFlight ==
  /\ [](SaveUnderWay => isSaving /\ SaveButtonDisabled)
  /\ [](outstanding <= 1)
  /\ [](isSaving ~> ~isSaving)

\* a request of saveEdits is under way and the button is disabled
C28_Witness == save.phase = "request" /\ outstanding = 1 /\ SaveButtonDisabled

\* ------------------------------------------------------ the contract generator

\* C29: generation always finishes: whenever isProcessing is true it
\* eventually becomes false again, whatever the group lookup and the
\* generations of the companies answer.
C29_GenerationFinishes == isProcessing ~> ~isProcessing

\* the moves of the status of a step
StepMoves ==
  { <<"pending", "generating">>, <<"generating", "generated">>,
    <<"generating", "error">>, <<"generated", "completed">> }

\* C30: the status of a step is monotonic: from one state to the next every
\* step of the list keeps its status or makes one of the moves pending to
\* generating, generating to generated or error, generated to completed; so
\* a completed step never shows another status.
C30_StepStatusMonotonic ==
  [][Len(steps') = Len(steps) =>
       \A i \in 1..Len(steps) :
          steps'[i] = steps[i] \/ <<steps[i], steps'[i]>> \in StepMoves]_vars
====
